---------------------------- MODULE Spec2Model ----------------------------
(***************************************************************************)
(* The training driver of src/main.py: prefill, then per epoch             *)
(* train -> collect -> persist -> log -> (every test_every epochs)         *)
(* checkpoint + test, together with the data-loader worker that keeps      *)
(* reading episode files of the epoch's listing while the main thread       *)
(* goes on.  Collector and TrajectoryDataset live in data.py, which is     *)
(* not part of the sources at hand; they are modelled from the design      *)
(* document.                                                               *)
(***************************************************************************)
EXTENDS Integers, Sequences, FiniteSets, TLC

(* ---- configuration (DreamerConfig) ---- *)
action_repeats == 2     \* main.py:24

(* ---- bounds: the configuration scaled down, and the environment ---- *)
batch_size == 1         \* stands for main.py:31 (50)
batch_length == 2       \* stands for main.py:32 (50)
training_steps == 2     \* stands for main.py:33 (100)
test_every == 2         \* stands for main.py:36 (25)
PrefetchWindow == 2     \* stands for main.py:88 (prefetch_factor 2 * num_workers 10)
NumEpochs == 3          \* stands for main.py:84 (trange(1000))
MaxEpLen == 3           \* longest episode the environment produces
MaxPrefill == 1         \* largest prefill_episodes (main.py:30) tried
MaxRuns == 2            \* runs of the driver on the same data directory

VARIABLES
    run,                \* which run of the driver this is (1..MaxRuns)
    prefill_episodes,   \* config.prefill_episodes of this run (main.py:30 sets 0, line 73 says 5)
    pc,                 \* position of the main thread
    i,                  \* epoch index of the outer loop
    step,               \* dreamer.update calls done in this epoch
    store,              \* data_dir: file name -> episode length (0: no file)
    writing,            \* file np.savez_compressed is in the middle of writing
    files,              \* the dataset's listing: name -> length at scan time
    seq_len,            \* the dataset's sequence length
    undisp,             \* indices of the current iterator not yet sent to a worker
    tasks,              \* batches sent to the workers, not yet assembled (sizes left)
    ready,              \* assembled batches waiting for next(data_iter)
    wk,                 \* the sub-sequence a worker is extracting
    colKind,            \* which collect() call is running
    colTarget,          \* its target_num_episodes
    colEps,             \* lengths of the episodes it has completed
    colCur,             \* steps of the episode in progress
    colSteps,           \* its environment-step counter
    persistIdx,         \* index of the prefill episode being written
    total_env_steps,    \* main.py:74
    env_logged,         \* last "env_steps" given to wandb.log (-1: none yet)
    ckpts,              \* names of the checkpoints saved by this run, in order
    numTests,           \* test collections finished in this run
    mine,               \* names of the files this run has persisted
    dirty,              \* names written since the dataset's listing was taken
    overwrote,          \* a persist of this run hit an existing file
    updates             \* dreamer.update calls of this run

vars == <<run, prefill_episodes, pc, i, step, store, writing, files, seq_len,
          undisp, tasks, ready, wk, colKind, colTarget, colEps, colCur,
          colSteps, persistIdx, total_env_steps, env_logged, ckpts, numTests,
          mine, dirty, overwrote, updates>>

(* ---- file names ---- *)
PreName(j) == <<"pre", j>>
EpName(j) == <<"ep", j>>
NoFile == <<"none", 0>>
Names == {PreName(j) : j \in 0..(MaxPrefill - 1)} \cup {EpName(j) : j \in 0..(NumEpochs - 1)}

Idle == [name |-> NoFile, eplen |-> 0, off |-> 0, sublen |-> 0, ok |-> FALSE]

RECURSIVE SumSeq(_)
SumSeq(s) == IF s = <<>> THEN 0 ELSE Head(s) + SumSeq(Tail(s))

RECURSIVE SumLens(_, _)
SumLens(S, f) ==
    IF S = {} THEN 0
    ELSE LET x == CHOOSE y \in S : TRUE IN f[x] + SumLens(S \ {x}, f)

Min(a, b) == IF a < b THEN a ELSE b

(* ---- TrajectoryDataset ---- *)
\* the sequence length the driver hands to the dataset
DatasetSeqLenSwapped == batch_size
DatasetSeqLen == batch_length

\* the listing a dataset constructed now would hold
DatasetFilesStale == IF i = 0 THEN store ELSE files
DatasetFiles == store

\* episodes of a listing long enough to be sampled
Eligible(listing, n) == {f \in Names : listing[f] >= n}

\* the slice data[off : off + n] of an episode of length len
SliceLen(len, off, n) == IF off + n <= len THEN n ELSE IF off < len THEN len - off ELSE 0

(* ---- DataLoader iterator ---- *)
\* iter(dataloader) over a dataset of n items: the first batches go to the workers
RECURSIVE Dispatch(_, _, _)
Dispatch(t, u, k) ==
    IF k = 0 \/ u = 0 THEN <<t, u>>
    ELSE Dispatch(Append(t, Min(batch_size, u)), u - Min(batch_size, u), k - 1)

IterTasks(n) == Dispatch(<<>>, n, PrefetchWindow)[1]
IterUndisp(n) == Dispatch(<<>>, n, PrefetchWindow)[2]

Exhausted == ready = 0 /\ tasks = <<>> /\ undisp = 0

(* ---- driver arithmetic ---- *)
PrefillEnvStepsDropped(env_steps) == 0
PrefillEnvSteps(env_steps) == env_steps

AddEnvStepsOverwrite(total, env_steps) == env_steps
AddEnvSteps(total, env_steps) == total + env_steps

LoggedEnvSteps(total) == total * action_repeats

CheckpointNameScaled(total) == total * action_repeats
CheckpointName(total) == total

TestDueShifted(e) == (e + 1) % test_every = 0
TestDue(e) == e % test_every = 0

Init ==
    /\ run = 1
    /\ prefill_episodes \in 0..MaxPrefill
    /\ pc = "start"
    /\ i = 0
    /\ step = 0
    /\ store = [f \in Names |-> 0]
    /\ writing = NoFile
    /\ files = [f \in Names |-> 0]
    /\ seq_len = 0
    /\ undisp = 0
    /\ tasks = <<>>
    /\ ready = 0
    /\ wk = Idle
    /\ colKind = "none"
    /\ colTarget = 0
    /\ colEps = <<>>
    /\ colCur = 0
    /\ colSteps = 0
    /\ persistIdx = 0
    /\ total_env_steps = 0
    /\ env_logged = -1
    /\ ckpts = <<>>
    /\ numTests = 0
    /\ mine = {}
    /\ dirty = {}
    /\ overwrote = FALSE
    /\ updates = 0

loaderVars == <<files, seq_len, undisp, tasks, ready, wk>>
colVars == <<colKind, colTarget, colEps, colCur, colSteps>>
ghostVars == <<mine, dirty, overwrote>>

BeginCollect(kind, n) ==
    /\ colKind' = kind
    /\ colTarget' = n
    /\ colEps' = <<>>
    /\ colCur' = 0
    /\ colSteps' = 0

\* the episodes and counters a finished collect() returned go out of use
EndCollect ==
    /\ colKind' = "none"
    /\ colTarget' = 0
    /\ colEps' = <<>>
    /\ colCur' = 0
    /\ colSteps' = 0

\* main.py:74-76: no prefill, straight into the epoch loop
StartNoPrefill ==
    /\ pc = "start"
    /\ prefill_episodes = 0
    /\ pc' = "epoch"
    /\ UNCHANGED <<run, prefill_episodes, i, step, store, writing, loaderVars, colVars,
                   persistIdx, total_env_steps, env_logged, ckpts, numTests,
                   ghostVars, updates>>

\* main.py:76-79: the prefill collect() is called
StartPrefill ==
    /\ pc = "start"
    /\ prefill_episodes > 0
    /\ BeginCollect("prefill", prefill_episodes)
    /\ pc' = "collect"
    /\ UNCHANGED <<run, prefill_episodes, i, step, store, writing, loaderVars,
                   persistIdx, total_env_steps, env_logged, ckpts, numTests,
                   ghostVars, updates>>

\* Collector.collect: one environment step of the episode in progress
CollectStep ==
    /\ pc = "collect"
    /\ Len(colEps) < colTarget
    /\ \E done \in BOOLEAN :
        /\ (colCur + 1 = MaxEpLen) => done
        /\ colSteps' = colSteps + 1
        /\ IF done
           THEN colEps' = Append(colEps, colCur + 1) /\ colCur' = 0
           ELSE colEps' = colEps /\ colCur' = colCur + 1
    /\ UNCHANGED <<run, prefill_episodes, pc, i, step, store, writing, loaderVars,
                   colKind, colTarget, persistIdx, total_env_steps, env_logged,
                   ckpts, numTests, ghostVars, updates>>

\* main.py:77: the prefill collect() returns
PrefillReturn ==
    /\ pc = "collect" /\ colKind = "prefill"
    /\ Len(colEps) = colTarget
    /\ total_env_steps' = PrefillEnvSteps(colSteps)
    /\ persistIdx' = 0
    /\ pc' = "persist_pre"
    /\ UNCHANGED <<run, prefill_episodes, i, step, store, writing, loaderVars, colVars,
                   env_logged, ckpts, numTests, ghostVars, updates>>

\* np.savez_compressed opens the target path for writing
OpenForWrite(name, len) ==
    /\ overwrote' = (overwrote \/ store[name] # 0)
    /\ store' = [store EXCEPT ![name] = len]
    /\ writing' = name
    /\ dirty' = dirty \cup {name}
    /\ mine' = mine

CloseWritten ==
    /\ mine' = mine \cup {writing}
    /\ writing' = NoFile
    /\ UNCHANGED <<store, dirty, overwrote>>

\* main.py:80-81: the loop over prefill_data
PersistPrefillBegin ==
    /\ pc = "persist_pre"
    /\ persistIdx < Len(colEps)
    /\ OpenForWrite(PreName(persistIdx), colEps[persistIdx + 1])
    /\ pc' = "persist_pre_w"
    /\ UNCHANGED <<run, prefill_episodes, i, step, loaderVars, colVars, persistIdx,
                   total_env_steps, env_logged, ckpts, numTests, updates>>

PersistPrefillEnd ==
    /\ pc = "persist_pre_w"
    /\ CloseWritten
    /\ persistIdx' = persistIdx + 1
    /\ pc' = "persist_pre"
    /\ UNCHANGED <<run, prefill_episodes, i, step, loaderVars, colVars,
                   total_env_steps, env_logged, ckpts, numTests, updates>>

PrefillDone ==
    /\ pc = "persist_pre"
    /\ persistIdx = Len(colEps)
    /\ EndCollect
    /\ persistIdx' = 0
    /\ pc' = "epoch"
    /\ UNCHANGED <<run, prefill_episodes, i, step, store, writing, loaderVars,
                   total_env_steps, env_logged, ckpts, numTests,
                   ghostVars, updates>>

\* main.py:86-91: dataset, dataloader and iterator of epoch i
EpochStart ==
    /\ pc = "epoch"
    /\ i < NumEpochs
    /\ files' = DatasetFiles
    /\ seq_len' = DatasetSeqLen
    /\ LET n == Cardinality(Eligible(files', seq_len')) IN
        /\ tasks' = IterTasks(n)
        /\ undisp' = IterUndisp(n)
    /\ ready' = 0
    /\ wk' = Idle
    /\ dirty' = {}
    /\ step' = 0
    /\ pc' = "train"
    /\ UNCHANGED <<run, prefill_episodes, i, store, writing, colVars, persistIdx,
                   total_env_steps, env_logged, ckpts, numTests, mine, overwrote,
                   updates>>

\* main.py:94, 98-103: next(data_iter) hands over a batch, dreamer.update runs
TrainStep ==
    /\ pc = "train"
    /\ step < training_steps
    /\ ready > 0
    /\ ready' = ready - 1
    /\ tasks' = Dispatch(tasks, undisp, 1)[1]
    /\ undisp' = Dispatch(tasks, undisp, 1)[2]
    /\ step' = step + 1
    /\ updates' = updates + 1
    /\ UNCHANGED <<run, prefill_episodes, pc, i, store, writing, files, seq_len, wk,
                   colVars, persistIdx, total_env_steps, env_logged, ckpts,
                   numTests, ghostVars>>

\* main.py:95-97: StopIteration, a new iterator, and next() on it
TrainStopIteration ==
    /\ pc = "train"
    /\ step < training_steps
    /\ Exhausted /\ wk = Idle
    /\ LET n == Cardinality(Eligible(files, seq_len)) IN
        IF n = 0
        THEN /\ pc' = "crashed"
             /\ UNCHANGED <<tasks, undisp>>
        ELSE /\ pc' = pc
             /\ tasks' = IterTasks(n)
             /\ undisp' = IterUndisp(n)
    /\ UNCHANGED <<run, prefill_episodes, i, step, store, writing, files, seq_len,
                   ready, wk, colVars, persistIdx, total_env_steps, env_logged,
                   ckpts, numTests, ghostVars, updates>>

\* main.py:106-107: the training collect() is called
TrainCollect ==
    /\ pc = "train"
    /\ step = training_steps
    /\ BeginCollect("train", 1)
    /\ pc' = "collect"
    /\ UNCHANGED <<run, prefill_episodes, i, step, store, writing, loaderVars,
                   persistIdx, total_env_steps, env_logged, ckpts, numTests,
                   ghostVars, updates>>

\* main.py:107-109: it returns
TrainCollectReturn ==
    /\ pc = "collect" /\ colKind = "train"
    /\ Len(colEps) = colTarget
    /\ total_env_steps' = AddEnvSteps(total_env_steps, colSteps)
    /\ pc' = "persist"
    /\ UNCHANGED <<run, prefill_episodes, i, step, store, writing, loaderVars, colVars,
                   persistIdx, env_logged, ckpts, numTests, ghostVars, updates>>

\* main.py:110: np.savez_compressed(f"{i}.npz")
PersistBegin ==
    /\ pc = "persist"
    /\ OpenForWrite(EpName(i), colEps[1])
    /\ pc' = "persist_w"
    /\ UNCHANGED <<run, prefill_episodes, i, step, loaderVars, colVars, persistIdx,
                   total_env_steps, env_logged, ckpts, numTests, updates>>

PersistEnd ==
    /\ pc = "persist_w"
    /\ CloseWritten
    /\ EndCollect
    /\ pc' = "log"
    /\ UNCHANGED <<run, prefill_episodes, i, step, loaderVars, persistIdx,
                   total_env_steps, env_logged, ckpts, numTests, updates>>

\* main.py:111-119: wandb.log, then the test cadence
LogAndBranch ==
    /\ pc = "log"
    /\ env_logged' = LoggedEnvSteps(total_env_steps)
    /\ IF TestDue(i)
       THEN pc' = "save" /\ i' = i
       ELSE pc' = "epoch" /\ i' = i + 1
    /\ UNCHANGED <<run, prefill_episodes, step, store, writing, loaderVars, colVars,
                   persistIdx, total_env_steps, ckpts, numTests, ghostVars, updates>>

\* main.py:121-126: torch.save, then the test collect() is called
SaveCheckpoint ==
    /\ pc = "save"
    /\ ckpts' = Append(ckpts, CheckpointName(total_env_steps))
    /\ BeginCollect("test", 1)
    /\ pc' = "collect"
    /\ UNCHANGED <<run, prefill_episodes, i, step, store, writing, loaderVars,
                   persistIdx, total_env_steps, env_logged, numTests, ghostVars,
                   updates>>

\* main.py:126-134: it returns, the epoch ends
TestReturn ==
    /\ pc = "collect" /\ colKind = "test"
    /\ Len(colEps) = colTarget
    /\ numTests' = numTests + 1
    /\ EndCollect
    /\ i' = i + 1
    /\ pc' = "epoch"
    /\ UNCHANGED <<run, prefill_episodes, step, store, writing, loaderVars,
                   persistIdx, total_env_steps, env_logged, ckpts, ghostVars,
                   updates>>

\* main.py:84: the epoch range is used up
Finish ==
    /\ pc = "epoch"
    /\ i = NumEpochs
    /\ pc' = "done"
    /\ tasks' = <<>> /\ undisp' = 0 /\ ready' = 0 /\ wk' = Idle
    /\ UNCHANGED <<run, prefill_episodes, i, step, store, writing, files, seq_len,
                   colVars, persistIdx, total_env_steps, env_logged, ckpts,
                   numTests, ghostVars, updates>>

(* ---- a data-loader worker (alive from iter() until the iterator is replaced) ---- *)
WorkersAlive == pc \notin {"start", "epoch", "done", "crashed"} \/ (pc = "epoch" /\ i > 0)

\* TrajectoryDataset.__getitem__: pick an eligible episode of the listing and load
\* its file; a file that is half written, or too short by now, makes the load or
\* the offset draw raise
WorkerBegin ==
    /\ WorkersAlive
    /\ wk = Idle
    /\ tasks # <<>>
    /\ \E f \in Eligible(files, seq_len) :
        IF f = writing \/ store[f] < seq_len
        THEN wk' = [name |-> f, eplen |-> store[f], off |-> 0, sublen |-> 0, ok |-> FALSE]
        ELSE \E off \in 0..(store[f] - seq_len) :
                wk' = [name |-> f, eplen |-> store[f], off |-> off,
                       sublen |-> SliceLen(store[f], off, seq_len), ok |-> TRUE]
    /\ UNCHANGED <<run, prefill_episodes, pc, i, step, store, writing, files, seq_len,
                   undisp, tasks, ready, colVars, persistIdx, total_env_steps,
                   env_logged, ckpts, numTests, ghostVars, updates>>

\* the sub-sequence is handed over and the batch is assembled when it was the last
\* one; a load that raced with a write of the same file may have failed instead
WorkerEnd ==
    /\ WorkersAlive
    /\ wk # Idle
    /\ wk' = Idle
    /\ \E good \in BOOLEAN :
        /\ good => wk.ok
        /\ (wk.ok /\ ~good) => (wk.name = writing \/ wk.name \in dirty)
        /\ IF ~good
           THEN tasks' = Tail(tasks) /\ ready' = ready
           ELSE IF Head(tasks) = 1
                THEN tasks' = Tail(tasks) /\ ready' = ready + 1
                ELSE tasks' = <<Head(tasks) - 1>> \o Tail(tasks) /\ ready' = ready
    /\ UNCHANGED <<run, prefill_episodes, pc, i, step, store, writing, files, seq_len,
                   undisp, colVars, persistIdx, total_env_steps, env_logged, ckpts,
                   numTests, ghostVars, updates>>

\* the driver is started again on the same data directory
Restart ==
    /\ pc \in {"epoch", "done", "crashed"}
    /\ run < MaxRuns
    /\ run' = run + 1
    /\ prefill_episodes' \in 0..MaxPrefill
    /\ pc' = "start"
    /\ i' = 0 /\ step' = 0
    /\ files' = [f \in Names |-> 0] /\ seq_len' = 0
    /\ undisp' = 0 /\ tasks' = <<>> /\ ready' = 0 /\ wk' = Idle
    /\ colKind' = "none" /\ colTarget' = 0 /\ colEps' = <<>> /\ colCur' = 0
    /\ colSteps' = 0 /\ persistIdx' = 0
    /\ total_env_steps' = 0 /\ env_logged' = -1 /\ ckpts' = <<>> /\ numTests' = 0
    /\ mine' = {} /\ dirty' = {} /\ overwrote' = FALSE /\ updates' = 0
    /\ UNCHANGED <<store, writing>>

Next ==
    \/ StartNoPrefill
    \/ StartPrefill
    \/ CollectStep
    \/ PrefillReturn
    \/ PersistPrefillBegin
    \/ PersistPrefillEnd
    \/ PrefillDone
    \/ EpochStart
    \/ TrainStep
    \/ TrainStopIteration
    \/ TrainCollect
    \/ TrainCollectReturn
    \/ PersistBegin
    \/ PersistEnd
    \/ LogAndBranch
    \/ SaveCheckpoint
    \/ TestReturn
    \/ Finish
    \/ WorkerBegin
    \/ WorkerEnd

\* one run of the driver on a fresh data directory
Spec == Init /\ [][Next]_vars

\* runs of the driver one after the other on the same data directory
NextRerun == Next \/ Restart

SpecRerun == Init /\ [][NextRerun]_vars

(* ---------------------------- the claims ---------------------------- *)

\* what the sampler of the current epoch draws from
Pool == Eligible(files, seq_len)

\* the test collect() of the current epoch is running (the checkpoint was just saved)
Testing == pc = "collect" /\ colKind = "test"

\* total length of the episodes this run has persisted
PersistedSteps == SumLens(mine, store)

\* C1: depleting the batch iterator never escapes the training loop as a failure,
\* whatever the store holds (also nothing the sampler can use): the loop restarts
\* the iterator, obtains a batch and goes on.
C1_ExhaustionNeverEscapes == pc # "crashed"

\* C2: no persist, of a prefill or of a regular episode, targets a file name that
\* already exists in the store, also in a run started on the directory of an
\* earlier run.
C2_NeverWrittenAgain == ~overwrote

\* C3: every file a worker reads is complete and unchanged since the epoch's
\* listing was taken: no worker is reading the file being written, nor one written
\* after the listing.
C3_WorkersReadStableFiles == (wk # Idle) => (wk.name # writing /\ wk.name \notin dirty)

\* C4 (as stated): the files the sampler of epoch k draws from contain every
\* episode persisted before the epoch's training starts.
C4_AllPersistedInPool == (pc = "train") => (mine \subseteq Pool)

\* C4 (amended): the listing scanned for epoch k holds every episode persisted
\* before the epoch's training starts, with its content; the sampler draws from
\* those of them whose length is at least batch_length.
C4_ListingFresh ==
    (pc = "train") =>
        \A f \in mine :
            /\ files[f] = store[f]
            /\ files[f] >= 1
            /\ (f \in Pool) <=> (store[f] >= batch_length)

C4_Witness ==
    /\ pc = "train" /\ i = 2
    /\ EpName(1) \in Pool
    /\ \E f \in mine : f \notin Pool

\* C5: no optimization step runs before the run has collected and persisted at
\* least one episode, for every value of prefill_episodes.
C5_CollectBeforeTrain == (updates > 0) => (mine # {})

\* C6 (as stated): the checkpoint's name is the count the driver reports as
\* 'env_steps' for that epoch.
C6_NameIsReportedEnvSteps == Testing => (ckpts[Len(ckpts)] = env_logged)

\* C6 (amended): the checkpoint's name is the number of environment steps of the
\* prefill and training episodes collected so far, counted before action-repeat
\* scaling; the 'env_steps' reported for the epoch is action_repeats times the name.
C6_NameIsUnscaledTotal ==
    Testing =>
        /\ ckpts[Len(ckpts)] = PersistedSteps
        /\ ckpts[Len(ckpts)] = total_env_steps
        /\ env_logged = 2 * ckpts[Len(ckpts)]

C6_Witness == Testing /\ Len(ckpts) = 2 /\ prefill_episodes > 0 /\ ckpts[2] > ckpts[1] + 1

C9_TestCadence ==
    /\ (pc = "epoch") =>
            /\ mine = {PreName(j) : j \in 0..(prefill_episodes - 1)}
                            \cup {EpName(j) : j \in 0..(i - 1)}
            /\ Len(ckpts) = Cardinality({j \in 0..(i - 1) : j % test_every = 0})
            /\ numTests = Len(ckpts)
            /\ total_env_steps = PersistedSteps
    /\ (pc = "save" \/ Testing) =>
            /\ i % test_every = 0
            /\ step = training_steps
            /\ updates = (i + 1) * training_steps
            /\ EpName(i) \in mine
            /\ Cardinality(mine) = prefill_episodes + i + 1
    /\ Testing => (Len(ckpts) = numTests + 1)
    /\ (pc = "save") => (Len(ckpts) = numTests)

C9_Witness == pc = "done" /\ numTests = 2 /\ Len(ckpts) = 2

\* C10: within one run the checkpoint names are strictly increasing from one save
\* to the next, so no save overwrites a checkpoint written earlier in the run.
C10_NamesIncrease ==
    \A a, b \in 1..Len(ckpts) : (a < b) => (ckpts[a] < ckpts[b])

C10_Witness == Len(ckpts) = 2 /\ pc = "epoch"

=============================================================================
